---- MODULE Spec2Model ----
(***************************************************************************)
(* Model of src/src/csvdata.rs: the CsvData token grid, its constructors,  *)
(* its file round trip, and the pairwise and N-way set operations.         *)
(*                                                                         *)
(* A String is a sequence of character codes (ASCII), so that joining,     *)
(* splitting and the byte-wise ordering of BTreeMap keys are computed and  *)
(* not assumed.  A CsvData is a record [data, delimiter, line_width].      *)
(* An Option<CsvData> is a sequence of length 0 (None) or 1 (Some).        *)
(***************************************************************************)
EXTENDS Integers, Sequences, FiniteSets, TLC

VARIABLES csvs, text, file, arg, pc, result, iter

vars == <<csvs, text, file, arg, pc, result, iter>>

----------------------------------------------------------------------------
(* Characters the program itself names. *)

\* '\n', of to_file and from_file
NL == 10
\* ' ', the token from_raw_string pads with and the tail of the ", " marker
SP == 32
\* ',', the head of the ", " marker
COMMA == 44

(* Bounds of the inputs. *)

\* tokens of the two grids of a pairwise operation, taken together
MaxPairTokens == 4
\* line_width of a grid given to a pairwise operation
MaxPairWidth == 2
\* tokens of the grid written to a file
MaxFileTokens == 3
\* line_width of the grid written to a file
MaxFileWidth == 2
\* characters of the text given to from_raw_string
MaxTextLen == 3
\* line_width given to from_raw_string
MaxRawWidth == 3
\* grids of the slice given to an N-way operation
MaxGrids == 2
\* tokens of all the grids of a slice, taken together
MaxAllTokens == 3
\* line_width of a grid of a slice, and the width given to union_all and pad
MaxAllWidth == 2
\* line_width given to from_raw_string for the grids of the documented scenarios
MaxDocWidth == 2
\* tokens of a grid that is iterated
MaxIterTokens == 3
\* line_width of a grid that is iterated
MaxIterWidth == 2

Delims == {COMMA, 59}
FileDelims == {COMMA, 59, NL}
PairTokens == {<<97>>, <<SP>>, <<COMMA>>}
FileTokens == {<<>>, <<97>>, <<COMMA>>, <<NL>>}
AllTokens == {<<97>>, <<>>}
RawChars == {97, SP, COMMA}

----------------------------------------------------------------------------
(* Values *)

CsvData(data, delimiter, line_width) ==
    [data |-> data, delimiter |-> delimiter, line_width |-> line_width]

None == <<>>
Some(csv) == <<csv>>

NoArg == [delimiter |-> 0, line_width |-> 0]
Outcome(kind, val) == [kind |-> kind, val |-> val]
Idle == Outcome("Idle", <<>>)

\* an iterator: the grid it holds or borrows, its index, the rows it has
\* yielded in this pass, the rows of the pass before, the number of the pass
Iterator(csv_data, index, rows, first, pass) ==
    [csv_data |-> csv_data, index |-> index, rows |-> rows, first |-> first,
     pass |-> pass]
NoIter == Iterator(CsvData(<<>>, 0, 0), 0, <<>>, <<>>, 0)

Max(a, b) == IF a >= b THEN a ELSE b
Min(a, b) == IF a <= b THEN a ELSE b

\* sequences over S of length 0..n
SeqUpTo(S, n) == UNION {[1..k -> S] : k \in 0..n}

----------------------------------------------------------------------------
(* Strings *)

\* Ord of String: byte-wise lexicographic
RECURSIVE StrLess(_, _)
StrLess(s, t) ==
    IF s = <<>> THEN t # <<>>
    ELSE IF t = <<>> THEN FALSE
    ELSE IF Head(s) < Head(t) THEN TRUE
    ELSE IF Head(s) > Head(t) THEN FALSE
    ELSE StrLess(Tail(s), Tail(t))

\* Ord of Vec<String>: lexicographic over the elements
RECURSIVE VecLess(_, _)
VecLess(u, v) ==
    IF u = <<>> THEN v # <<>>
    ELSE IF v = <<>> THEN FALSE
    ELSE IF StrLess(Head(u), Head(v)) THEN TRUE
    ELSE IF StrLess(Head(v), Head(u)) THEN FALSE
    ELSE VecLess(Tail(u), Tail(v))

\* [String]::join(sep), sep a string
RECURSIVE Join(_, _)
Join(row, sep) ==
    IF row = <<>> THEN <<>>
    ELSE IF Len(row) = 1 THEN Head(row)
    ELSE Head(row) \o sep \o Join(Tail(row), sep)

\* str::split(char): "" gives [""], "a," gives ["a", ""]
RECURSIVE Split(_, _)
Split(s, d) ==
    IF s = <<>> THEN << <<>> >>
    ELSE IF Head(s) = d THEN << <<>> >> \o Split(Tail(s), d)
    ELSE LET r == Split(Tail(s), d)
         IN  << <<Head(s)>> \o Head(r) >> \o Tail(r)

\* str::matches(char).count()
RECURSIVE Matches(_, _)
Matches(s, d) ==
    IF s = <<>> THEN 0
    ELSE (IF Head(s) = d THEN 1 ELSE 0) + Matches(Tail(s), d)

\* concatenation of a sequence of sequences (flatten / extend)
RECURSIVE Flatten(_)
Flatten(ss) == IF ss = <<>> THEN <<>> ELSE Head(ss) \o Flatten(Tail(ss))

\* n copies of x, one after the other
RECURSIVE Repeat(_, _)
Repeat(x, n) == IF n <= 0 THEN <<>> ELSE <<x>> \o Repeat(x, n - 1)

----------------------------------------------------------------------------
(* Row iteration: CsvDataIterator::next, run to the end *)

RECURSIVE RowsFrom(_, _)
RowsFrom(csv, index) ==
    IF index >= Len(csv.data) THEN <<>>
    ELSE LET right_bound ==
                 IF index + csv.line_width < Len(csv.data)
                 THEN index + csv.line_width
                 ELSE Len(csv.data)
         IN  <<SubSeq(csv.data, index + 1, right_bound)>>
                 \o RowsFrom(csv, index + csv.line_width)

into_iter(csv) == RowsFrom(csv, 0)

----------------------------------------------------------------------------
(* Multiplicity maps: BTreeMap<String, i32> as a function on its key set *)

EmptyMap == [k \in {} |-> 0]

\* *map.entry(k).or_insert(0) += 1
Incr(map, k) ==
    IF k \in DOMAIN map THEN [map EXCEPT ![k] = @ + 1] ELSE map @@ (k :> 1)

\* the key the fold builds for one row: the ", " marker is a literal
LineKey(v, delimiter, width) ==
    LET abs == IF Len(v) >= width THEN Len(v) - width ELSE width - Len(v)
    IN  Join(v, <<delimiter>>) \o Flatten(Repeat(<<COMMA, SP>>, abs))

RECURSIVE FoldLines(_, _, _, _)
FoldLines(acc, rows, delimiter, width) ==
    IF rows = <<>> THEN acc
    ELSE FoldLines(Incr(acc, LineKey(Head(rows), delimiter, width)),
                   Tail(rows), delimiter, width)

lines_map_from_csv(self, width) ==
    FoldLines(EmptyMap, into_iter(self), self.delimiter, width)

\* the keys of a BTreeMap in iteration order
RECURSIVE SortedKeys(_)
SortedKeys(S) ==
    IF S = {} THEN <<>>
    ELSE LET m == CHOOSE x \in S : \A y \in S \ {x} : StrLess(x, y)
         IN  <<m>> \o SortedKeys(S \ {m})

\* each key of keys, map[key] times over, split back into tokens
RECURSIVE Materialize(_, _, _)
Materialize(keys, counts, delimiter) ==
    IF keys = <<>> THEN <<>>
    ELSE Flatten(Repeat(Split(Head(keys), delimiter), counts[Head(keys)]))
             \o Materialize(Tail(keys), counts, delimiter)

----------------------------------------------------------------------------
(* Pairwise operations *)

\* union that appends the rows of second to those of self, without the map
union_appends(self, second) ==
    IF self.delimiter # second.delimiter THEN None
    ELSE Some(CsvData(self.data \o second.data, self.delimiter,
                      Max(self.line_width, second.line_width)))

union(self, second) ==
    IF self.delimiter # second.delimiter THEN None
    ELSE LET width == Max(self.line_width, second.line_width)
             lines_map == FoldLines(lines_map_from_csv(self, width),
                                    into_iter(second), self.delimiter, width)
         IN  Some(CsvData(Materialize(SortedKeys(DOMAIN lines_map), lines_map,
                                      self.delimiter),
                          self.delimiter, width))

\* intersection with the emptiness test of intersection_all's fold moved
\* into it: a result without rows is reported as absent
intersection_empty_is_none(self, second) ==
    IF self.delimiter # second.delimiter THEN None
    ELSE LET width == Max(self.line_width, second.line_width)
             self_lines_map == lines_map_from_csv(self, width)
             second_lines_map == lines_map_from_csv(second, width)
             common == DOMAIN self_lines_map \cap DOMAIN second_lines_map
         IN  IF common = {} THEN None
             ELSE Some(CsvData(Materialize(SortedKeys(common),
                                  [line \in common |->
                                     Min(self_lines_map[line],
                                         second_lines_map[line])],
                                  self.delimiter),
                               self.delimiter, width))

intersection(self, second) ==
    IF self.delimiter # second.delimiter THEN None
    ELSE LET width == Max(self.line_width, second.line_width)
             self_lines_map == lines_map_from_csv(self, width)
             second_lines_map == lines_map_from_csv(second, width)
             common == DOMAIN self_lines_map \cap DOMAIN second_lines_map
             num_lines == [line \in common |->
                             Min(self_lines_map[line], second_lines_map[line])]
         IN  Some(CsvData(Materialize(SortedKeys(common), num_lines,
                                      self.delimiter),
                          self.delimiter, width))

lines_map_to_difference(map1, map2, delimiter) ==
    Materialize(SortedKeys(DOMAIN map1 \ DOMAIN map2), map1, delimiter)

difference(self, second) ==
    IF self.delimiter # second.delimiter THEN None
    ELSE LET width == Max(self.line_width, second.line_width)
             self_lines_map == lines_map_from_csv(self, width)
             second_lines_map == lines_map_from_csv(second, width)
             result_data_first ==
                 lines_map_to_difference(self_lines_map, second_lines_map,
                                         self.delimiter)
             result_data_second ==
                 lines_map_to_difference(second_lines_map, self_lines_map,
                                         self.delimiter)
         IN  Some(CsvData(result_data_first \o result_data_second,
                          self.delimiter, width))

OptionOutcome(opt) == Outcome(IF opt = None THEN "None" ELSE "Some", opt)

----------------------------------------------------------------------------
(* The pairwise specification: two grids built by CsvData::new, then one   *)
(* of union, intersection, difference applied to them.                     *)

PairGrids(n) ==
    {CsvData(d, dl, w) : d \in SeqUpTo(PairTokens, n), dl \in Delims,
                         w \in 1..MaxPairWidth}

InitPair ==
    /\ \E a \in PairGrids(MaxPairTokens) :
         \E b \in PairGrids(MaxPairTokens - Len(a.data)) :
           csvs = <<a, b>>
    /\ text = <<>>
    /\ file = <<>>
    /\ arg = NoArg
    /\ pc = "start"
    /\ result = Idle
    /\ iter = NoIter

Union ==
    /\ pc = "start"
    /\ pc' = "union"
    /\ result' = OptionOutcome(union(csvs[1], csvs[2]))
    /\ UNCHANGED <<iter, csvs, text, file, arg>>

Intersection ==
    /\ pc = "start"
    /\ pc' = "intersection"
    /\ result' = OptionOutcome(intersection(csvs[1], csvs[2]))
    /\ UNCHANGED <<iter, csvs, text, file, arg>>

Difference ==
    /\ pc = "start"
    /\ pc' = "difference"
    /\ result' = OptionOutcome(difference(csvs[1], csvs[2]))
    /\ UNCHANGED <<iter, csvs, text, file, arg>>

NextPair == Union \/ Intersection \/ Difference

SpecPair == InitPair /\ [][NextPair]_vars

----------------------------------------------------------------------------
(* Vocabulary of the statements about grids: rows, row keys, counts.       *)
(* These are written from the definitions of a row and of a row key, not   *)
(* from the code of the operations.                                        *)

A == csvs[1]
B == csvs[2]

Range(s) == {s[i] : i \in DOMAIN s}

\* the rows of a token sequence grouped by w: windows of w tokens, the last
\* one holding what remains
Chunks(data, w) ==
    IF data = <<>> THEN <<>>
    ELSE [i \in 1..((Len(data) + w - 1) \div w) |->
            SubSeq(data, (i - 1) * w + 1, Min(i * w, Len(data)))]

RowsOf(csv) == Chunks(csv.data, csv.line_width)

\* the row key: the tokens joined by the delimiter, then ", " once per
\* token missing to the width w
RowKey(row, d, w) ==
    Join(row, <<d>>) \o Flatten(Repeat(<<COMMA, SP>>, w - Len(row)))

KeysOf(csv, w) == {RowKey(r, csv.delimiter, w) : r \in Range(RowsOf(csv))}

KeyCount(csv, k, w) ==
    LET rows == RowsOf(csv)
    IN  Cardinality({i \in DOMAIN rows : RowKey(rows[i], csv.delimiter, w) = k})

\* no token holds the grid's delimiter
TokensClean(csv) == \A i \in DOMAIN csv.data : csv.delimiter \notin Range(csv.data[i])

CommonWidth == Max(A.line_width, B.line_width)

PairPre == A.delimiter = B.delimiter /\ TokensClean(A) /\ TokensClean(B)

AllKeys(r) == KeysOf(A, CommonWidth) \cup KeysOf(B, CommonWidth) \cup KeysOf(r, CommonWidth)

UnionMultiplicityOf(r) ==
    /\ r.line_width = CommonWidth
    /\ \A k \in AllKeys(r) :
         KeyCount(r, k, CommonWidth)
             = KeyCount(A, k, CommonWidth) + KeyCount(B, k, CommonWidth)

\* C1: for all grids A and B that share a delimiter (any delimiter, any
\* widths, ragged last rows allowed, tokens without the delimiter), every
\* row key occurs in A.union(B), regrouped by its own width, as often as in
\* A plus as often as in B.
UnionMultiplicity ==
    (pc = "union" /\ PairPre) =>
        /\ result.kind = "Some"
        /\ UnionMultiplicityOf(result.val[1])

\* The statement of C1 for comma-delimited grids only, where the ", " marker
\* splits back into one token per missing token.
UnionMultiplicityComma ==
    (pc = "union" /\ PairPre /\ A.delimiter = COMMA) =>
        /\ result.kind = "Some"
        /\ UnionMultiplicityOf(result.val[1])

UnionMultiplicityCommaWitness ==
    /\ pc = "union" /\ PairPre /\ A.delimiter = COMMA
    /\ A.line_width # B.line_width
    /\ Len(A.data) % A.line_width # 0
    /\ \E k \in KeysOf(A, CommonWidth) : KeyCount(B, k, CommonWidth) > 0

IntersectionMultiplicityOf(r) ==
    /\ r.line_width = CommonWidth
    /\ \A k \in AllKeys(r) :
         KeyCount(r, k, CommonWidth)
             = Min(KeyCount(A, k, CommonWidth), KeyCount(B, k, CommonWidth))

\* C2: for all grids A and B that share a delimiter, A.intersection(B),
\* regrouped by its width, holds each row key min(count in A, count in B)
\* times, and no row key absent from A or absent from B.
IntersectionMultiplicity ==
    (pc = "intersection" /\ PairPre) =>
        /\ result.kind = "Some"
        /\ IntersectionMultiplicityOf(result.val[1])

\* The statement of C2 for comma-delimited grids only.
IntersectionMultiplicityComma ==
    (pc = "intersection" /\ PairPre /\ A.delimiter = COMMA) =>
        /\ result.kind = "Some"
        /\ IntersectionMultiplicityOf(result.val[1])

\* the keys of the rows i..j of r, as a bag (key -> count)
KeyCountIn(r, k, lo, hi) ==
    Cardinality({i \in DOMAIN RowsOf(r) :
                   /\ lo <= i /\ i <= hi
                   /\ RowKey(RowsOf(r)[i], r.delimiter, CommonWidth) = k})

\* rows of X whose key does not occur in Y
OnlyCount(X, Y) ==
    Cardinality({i \in DOMAIN RowsOf(X) :
                   RowKey(RowsOf(X)[i], X.delimiter, CommonWidth)
                       \notin KeysOf(Y, CommonWidth)})

SymmetricDifferenceOf(r) ==
    LET n1 == OnlyCount(A, B)
        n2 == OnlyCount(B, A)
    IN  /\ Len(RowsOf(r)) = n1 + n2
        /\ \A k \in AllKeys(r) :
             /\ KeyCountIn(r, k, 1, n1)
                  = (IF k \in KeysOf(B, CommonWidth) THEN 0
                     ELSE KeyCount(A, k, CommonWidth))
             /\ KeyCountIn(r, k, n1 + 1, n1 + n2)
                  = (IF k \in KeysOf(A, CommonWidth) THEN 0
                     ELSE KeyCount(B, k, CommonWidth))

\* C3: for all grids A and B that share a delimiter, A.difference(B) is
\* every row whose key occurs in A and not in B, repeated its count in A,
\* followed by every row whose key occurs in B and not in A, repeated its
\* count in B; a key that occurs in both never appears.
DifferencePresenceBased ==
    (pc = "difference" /\ PairPre) =>
        /\ result.kind = "Some"
        /\ SymmetricDifferenceOf(result.val[1])

\* The statement of C3 for comma-delimited grids only.
DifferencePresenceBasedComma ==
    (pc = "difference" /\ PairPre /\ A.delimiter = COMMA) =>
        /\ result.kind = "Some"
        /\ SymmetricDifferenceOf(result.val[1])

\* C4: union, intersection and difference return None exactly when the
\* delimiters differ; otherwise a present grid with line_width the larger of
\* the two widths and the first grid's delimiter, also when it has no row.
AbsentIffIncompatible ==
    (pc \in {"union", "intersection", "difference"}) =>
        /\ (result.kind = "None") <=> (A.delimiter # B.delimiter)
        /\ (result.kind = "Some") <=> (A.delimiter = B.delimiter)
        /\ result.kind = "Some" =>
             /\ Len(result.val) = 1
             /\ result.val[1].line_width = CommonWidth
             /\ result.val[1].delimiter = A.delimiter

\* an intersection of two non-empty compatible grids with no common row is
\* a present grid of zero rows
AbsentIffIncompatibleWitness ==
    /\ pc = "intersection"
    /\ A.delimiter = B.delimiter
    /\ A.data # <<>> /\ B.data # <<>>
    /\ A.line_width # B.line_width
    /\ result.kind = "Some"
    /\ result.val[1].data = <<>>

----------------------------------------------------------------------------
(* Files: to_file and from_file.  The file system is one file, absent      *)
(* (<<>>) or holding a text (<<text>>).                                    *)

\* the bytes to_file writes: every row joined by the delimiter, then "\n"
RECURSIVE WriteRows(_, _)
WriteRows(rows, delimiter) ==
    IF rows = <<>> THEN <<>>
    ELSE Join(Head(rows), <<delimiter>>) \o <<NL>>
             \o WriteRows(Tail(rows), delimiter)

to_file_buf(self) == WriteRows(into_iter(self), self.delimiter)

\* .filter(|s| !s.is_empty())
RECURSIVE NonEmpty(_)
NonEmpty(ss) ==
    IF ss = <<>> THEN <<>>
    ELSE (IF Head(ss) = <<>> THEN <<>> ELSE <<Head(ss)>>) \o NonEmpty(Tail(ss))

\* line_width = max(line_width, v.matches(delimiter).count() + 1), from 0
RECURSIVE InferWidth(_, _, _)
InferWidth(line_width, lines, delimiter) ==
    IF lines = <<>> THEN line_width
    ELSE InferWidth(Max(line_width, Matches(Head(lines), delimiter) + 1),
                    Tail(lines), delimiter)

RECURSIVE SplitAll(_, _)
SplitAll(lines, delimiter) ==
    IF lines = <<>> THEN <<>>
    ELSE Split(Head(lines), delimiter) \o SplitAll(Tail(lines), delimiter)

\* a line's delimiters counted without the + 1
from_file_width_off_by_one(contents, delimiter) ==
    LET lines == NonEmpty(Split(contents, NL))
    IN  CsvData(SplitAll(lines, delimiter), delimiter,
                IF lines = <<>> THEN 0
                ELSE InferWidth(0, lines, delimiter) - 1)

\* from_file on a file that was read: the Ok arm
from_file(contents, delimiter) ==
    LET lines == NonEmpty(Split(contents, NL))
    IN  CsvData(SplitAll(lines, delimiter), delimiter,
                InferWidth(0, lines, delimiter))

FileGrids ==
    {CsvData(d, dl, w) : d \in SeqUpTo(FileTokens, MaxFileTokens),
                         dl \in FileDelims, w \in 1..MaxFileWidth}

InitFile ==
    /\ \E g \in FileGrids : csvs = <<g>>
    /\ text = <<>>
    /\ file = <<>>
    /\ arg = NoArg
    /\ pc = "start"
    /\ result = Idle
    /\ iter = NoIter

\* File::create fails: nothing is written
ToFileCreateErr ==
    /\ pc = "start"
    /\ pc' = "to_file_err"
    /\ result' = Outcome("Err", <<>>)
    /\ UNCHANGED <<iter, csvs, text, file, arg>>

\* write_all fails after a proper prefix of the bytes
ToFileWriteErr ==
    /\ pc = "start"
    /\ \E n \in 0..(Len(to_file_buf(csvs[1])) - 1) :
         file' = <<SubSeq(to_file_buf(csvs[1]), 1, n)>>
    /\ pc' = "to_file_err"
    /\ result' = Outcome("Err", <<>>)
    /\ UNCHANGED <<iter, csvs, text, arg>>

ToFileOk ==
    /\ pc = "start"
    /\ file' = <<to_file_buf(csvs[1])>>
    /\ pc' = "to_file_ok"
    /\ result' = Outcome("Ok", <<>>)
    /\ UNCHANGED <<iter, csvs, text, arg>>

\* from_file on the file, with any delimiter; pc records whether the file
\* it reads was written completely
FromFile ==
    /\ pc \in {"start", "to_file_ok", "to_file_err"}
    /\ \E delimiter \in FileDelims :
         /\ arg' = [delimiter |-> delimiter, line_width |-> 0]
         /\ result' = IF file = <<>> THEN Outcome("Err", <<>>)
                      ELSE Outcome("Ok", <<from_file(file[1], delimiter)>>)
    /\ pc' = IF pc = "to_file_ok" THEN "round_trip" ELSE "from_file"
    /\ UNCHANGED <<iter, csvs, text, file>>

NextFile == ToFileCreateErr \/ ToFileWriteErr \/ ToFileOk \/ FromFile

SpecFile == InitFile /\ [][NextFile]_vars

G == csvs[1]

\* no token holds the delimiter or a newline
FieldsClean(csv) ==
    \A i \in DOMAIN csv.data :
        csv.delimiter \notin Range(csv.data[i]) /\ NL \notin Range(csv.data[i])

RoundTripPre ==
    /\ pc = "round_trip"
    /\ arg.delimiter = G.delimiter
    /\ G.line_width >= 1
    /\ Len(G.data) % G.line_width = 0
    /\ FieldsClean(G)

\* C5 as claimed: every grid of width >= 1 without a ragged row (the grid
\* of zero tokens and grids with empty tokens included), whose tokens hold
\* neither the delimiter nor a newline, is read back equal by from_file
\* with the same delimiter after to_file wrote it.
RoundTripAll == RoundTripPre => result = Outcome("Ok", <<G>>)

\* C5: the same for a grid that has at least one token, that has no row
\* made of one empty token (width >= 2, or no empty token), and whose
\* delimiter is not the newline unless its width is 1.
RoundTrip ==
    (/\ RoundTripPre
     /\ G.data # <<>>
     /\ (G.line_width >= 2 \/ <<>> \notin Range(G.data))
     /\ (G.line_width = 1 \/ G.delimiter # NL))
        => result = Outcome("Ok", <<G>>)

\* a row of two tokens, one of them empty, was written and read back
RoundTripWitness ==
    /\ RoundTripPre
    /\ G.delimiter # NL
    /\ G.line_width = 2
    /\ Len(G.data) = 2
    /\ G.data[1] = <<>> /\ G.data[2] # <<>>
    /\ result = Outcome("Ok", <<G>>)

----------------------------------------------------------------------------
(* from_raw_string *)

from_raw_string(data, delimiter, line_width) ==
    IF data = <<>> THEN Outcome("Value", <<CsvData(<<>>, delimiter, line_width)>>)
    ELSE LET vec == Split(data, delimiter)
         IN  IF line_width = 0 THEN Outcome("Panic", <<>>)
             ELSE Outcome("Value",
                          <<CsvData(vec \o Repeat(<<SP>>, Len(vec) % line_width),
                                    delimiter, line_width)>>)

InitRaw ==
    /\ csvs = <<>>
    /\ text \in SeqUpTo(RawChars, MaxTextLen)
    /\ file = <<>>
    /\ arg = NoArg
    /\ pc = "start"
    /\ result = Idle
    /\ iter = NoIter

FromRawString ==
    /\ pc = "start"
    /\ \E delimiter \in Delims, line_width \in 0..MaxRawWidth :
         /\ arg' = [delimiter |-> delimiter, line_width |-> line_width]
         /\ result' = from_raw_string(text, delimiter, line_width)
    /\ pc' = "from_raw_string"
    /\ UNCHANGED <<iter, csvs, text, file>>

NextRaw == FromRawString

SpecRaw == InitRaw /\ [][NextRaw]_vars

\* C6: for every non-empty text, delimiter and width >= 1, from_raw_string
\* returns a grid whose token count is a multiple of the width: the tokens
\* of the text split on the delimiter, followed by only as many " " tokens
\* as reach the next multiple.
RawStringDivisible ==
    (pc = "from_raw_string" /\ text # <<>> /\ arg.line_width >= 1) =>
        /\ result.kind = "Value"
        /\ LET g == result.val[1]
               tokens == Split(text, arg.delimiter)
               w == arg.line_width
           IN  /\ Len(g.data) % w = 0
               /\ g.data = tokens \o Repeat(<<SP>>, (w - (Len(tokens) % w)) % w)

----------------------------------------------------------------------------
(* N-way operations and pad *)

\* one row of pad: the tokens, then "" up to line_width
PadLine(data, line_width) == data \o Repeat(<<>>, line_width - Len(data))

RECURSIVE PadLines(_, _)
PadLines(rows, line_width) ==
    IF rows = <<>> THEN <<>>
    ELSE PadLine(Head(rows), line_width) \o PadLines(Tail(rows), line_width)

PadCsv(csv, line_width) ==
    CsvData(PadLines(into_iter(csv), line_width), csv.delimiter, line_width)

\* line_width - data.len() is below zero for some row
PadUnderflow(slice, line_width) ==
    \E i \in DOMAIN slice :
        LET rows == into_iter(slice[i])
        IN  \E j \in DOMAIN rows : Len(rows[j]) > line_width

\* pad with a saturating subtraction: a row that is too long is kept whole
pad_saturating(slice, line_width, overflow_checks) ==
    Outcome("Value", [i \in DOMAIN slice |-> PadCsv(slice[i], line_width)])

\* pad.  The subtraction line_width - data.len() is on usize: with overflow
\* checks (debug and test builds) it panics; without them (release builds)
\* it wraps to 2^64 - k, and the loop pushes Strings until the Vec can grow
\* no more (capacity overflow or allocation failure), which ends the
\* process.  Neither build returns a value.
pad(slice, line_width, overflow_checks) ==
    IF PadUnderflow(slice, line_width)
    THEN Outcome(IF overflow_checks THEN "Panic" ELSE "Abort", <<>>)
    ELSE Outcome("Value", [i \in DOMAIN slice |-> PadCsv(slice[i], line_width)])

\* csvs.iter().map(|csv| csv.line_width).max(), of a non-empty slice
RECURSIVE MaxWidthOf(_)
MaxWidthOf(slice) ==
    IF Len(slice) = 1 THEN slice[1].line_width
    ELSE Max(slice[1].line_width, MaxWidthOf(Tail(slice)))

\* every row of every grid, one after the other
RECURSIVE ConcatRows(_)
ConcatRows(slice) ==
    IF slice = <<>> THEN <<>>
    ELSE Flatten(into_iter(Head(slice))) \o ConcatRows(Tail(slice))

\* union_all that leaves the padding out
union_all_unpadded(slice, delimiter, line_width, overflow_checks) ==
    IF slice = <<>> THEN Outcome("Panic", <<>>)
    ELSE Outcome("Value", <<CsvData(ConcatRows(slice), delimiter, line_width)>>)

union_all(slice, delimiter, line_width, overflow_checks) ==
    IF slice = <<>> THEN Outcome("Panic", <<>>)
    ELSE LET width == Max(line_width, MaxWidthOf(slice))
             padded == pad(slice, width, overflow_checks)
         IN  IF padded.kind # "Value" THEN padded
             ELSE Outcome("Value",
                          <<CsvData(ConcatRows(padded.val), delimiter, line_width)>>)

\* try_fold of intersection_all: acc is an Option<CsvData>
RECURSIVE TryFold(_, _)
TryFold(item, others) ==
    IF others = <<>> THEN Some(item)
    ELSE LET intersection_ == intersection(item, Head(others))
         IN  IF intersection_ = None THEN None
             ELSE IF intersection_[1].data = <<>> THEN None
             ELSE TryFold(intersection_[1], Tail(others))

intersection_all(slice, overflow_checks) ==
    IF slice = <<>> THEN Outcome("Panic", <<>>)
    ELSE LET width == MaxWidthOf(slice)
             padded == pad(slice, width, overflow_checks)
         IN  IF padded.kind # "Value" THEN padded
             ELSE OptionOutcome(TryFold(Head(padded.val), Tail(padded.val)))

\* lines.entry(line).or_insert_with("0" * length).replace_range(i..i+1, "1")
MarkLine(lines, line, i, length) ==
    IF line \in DOMAIN lines
    THEN [lines EXCEPT ![line] = [@ EXCEPT ![i] = "1"]]
    ELSE lines @@ (line :> [j \in 1..length |-> IF j = i THEN "1" ELSE "0"])

\* the two maps of difference_all after the rows of grid i
RECURSIVE MarkRows(_, _, _, _)
MarkRows(maps, rows, i, length) ==
    IF rows = <<>> THEN maps
    ELSE MarkRows([lines |-> MarkLine(maps.lines, Head(rows), i, length),
                   count_map |-> Incr(maps.count_map, Head(rows))],
                  Tail(rows), i, length)

RECURSIVE MarkGrids(_, _, _)
MarkGrids(maps, slice, i) ==
    IF i > Len(slice) THEN maps
    ELSE MarkGrids(MarkRows(maps, into_iter(slice[i]), i, Len(slice)),
                   slice, i + 1)

\* num_ones that accepts a row found in any number of grids
num_ones_any(str) == Cardinality({j \in DOMAIN str : str[j] = "1"}) >= 1

num_ones(str) == Cardinality({j \in DOMAIN str : str[j] = "1"}) = 1

\* the keys of a BTreeMap<Vec<String>, _> in iteration order
RECURSIVE SortedLines(_)
SortedLines(S) ==
    IF S = {} THEN <<>>
    ELSE LET m == CHOOSE x \in S : \A y \in S \ {x} : VecLess(x, y)
         IN  <<m>> \o SortedLines(S \ {m})

RECURSIVE EmitUnique(_, _)
EmitUnique(keys, maps) ==
    IF keys = <<>> THEN <<>>
    ELSE (IF num_ones(maps.lines[Head(keys)])
          THEN Flatten(Repeat(Head(keys), maps.count_map[Head(keys)]))
          ELSE <<>>)
             \o EmitUnique(Tail(keys), maps)

difference_all(slice, overflow_checks) ==
    IF slice = <<>> THEN Outcome("Panic", <<>>)
    ELSE LET width == MaxWidthOf(slice)
             padded == pad(slice, width, overflow_checks)
         IN  IF padded.kind # "Value" THEN padded
             ELSE LET maps == MarkGrids([lines |-> EmptyMap, count_map |-> EmptyMap],
                                        padded.val, 1)
                  IN  Outcome("Value",
                              <<CsvData(EmitUnique(SortedLines(DOMAIN maps.lines), maps),
                                        padded.val[1].delimiter, width)>>)

----------------------------------------------------------------------------
(* The N-way specification: a slice of grids built one by one with         *)
(* CsvData::new, then one of union_all, intersection_all, difference_all,  *)
(* pad applied to it.                                                      *)

AllGrids(n) ==
    {CsvData(d, dl, w) : d \in SeqUpTo(AllTokens, n), dl \in Delims,
                         w \in 1..MaxAllWidth}

RECURSIVE TotalTokens(_)
TotalTokens(slice) ==
    IF slice = <<>> THEN 0 ELSE Len(Head(slice).data) + TotalTokens(Tail(slice))

InitAll ==
    /\ csvs = <<>>
    /\ text = <<>>
    /\ file = <<>>
    /\ arg = NoArg
    /\ pc = "start"
    /\ result = Idle
    /\ iter = NoIter

\* the caller builds one more grid with CsvData::new and adds it to the slice
NewGrid ==
    /\ pc = "start"
    /\ Len(csvs) < MaxGrids
    /\ \E g \in AllGrids(MaxAllTokens - TotalTokens(csvs)) :
         csvs' = Append(csvs, g)
    /\ UNCHANGED <<iter, text, file, arg, pc, result>>

UnionAll ==
    /\ pc = "start"
    /\ \E delimiter \in Delims, line_width \in 0..MaxAllWidth,
          overflow_checks \in BOOLEAN :
         /\ arg' = [delimiter |-> delimiter, line_width |-> line_width]
         /\ result' = union_all(csvs, delimiter, line_width, overflow_checks)
    /\ pc' = "union_all"
    /\ UNCHANGED <<iter, csvs, text, file>>

IntersectionAll ==
    /\ pc = "start"
    /\ \E overflow_checks \in BOOLEAN :
         result' = intersection_all(csvs, overflow_checks)
    /\ pc' = "intersection_all"
    /\ UNCHANGED <<iter, csvs, text, file, arg>>

DifferenceAll ==
    /\ pc = "start"
    /\ \E overflow_checks \in BOOLEAN :
         result' = difference_all(csvs, overflow_checks)
    /\ pc' = "difference_all"
    /\ UNCHANGED <<iter, csvs, text, file, arg>>

Pad ==
    /\ pc = "start"
    /\ \E line_width \in 0..MaxAllWidth, overflow_checks \in BOOLEAN :
         /\ arg' = [delimiter |-> 0, line_width |-> line_width]
         /\ result' = pad(csvs, line_width, overflow_checks)
    /\ pc' = "pad"
    /\ UNCHANGED <<iter, csvs, text, file>>

(* One specification per operation: the slice is built, then the          *)
(* operation is applied to it.                                             *)

NextUnionAll == NewGrid \/ UnionAll
SpecUnionAll == InitAll /\ [][NextUnionAll]_vars

NextIntersectionAll == NewGrid \/ IntersectionAll
SpecIntersectionAll == InitAll /\ [][NextIntersectionAll]_vars

NextDifferenceAll == NewGrid \/ DifferenceAll
SpecDifferenceAll == InitAll /\ [][NextDifferenceAll]_vars

NextPad == NewGrid \/ Pad
SpecPad == InitAll /\ [][NextPad]_vars

----------------------------------------------------------------------------
(* Vocabulary of the statements about slices: a row padded to a width and  *)
(* the padded rows of an input grid, written from the definition of        *)
(* padding, not from pad.                                                  *)

PaddedRow(row, w) == row \o [k \in 1..(w - Len(row)) |-> <<>>]

PaddedRows(csv, w) ==
    LET rows == RowsOf(csv)
    IN  [j \in DOMAIN rows |-> PaddedRow(rows[j], w)]

\* how many rows of the sequence rows are the row r
RowCount(rows, r) == Cardinality({j \in DOMAIN rows : rows[j] = r})

SliceWidth == CHOOSE w \in {csvs[i].line_width : i \in DOMAIN csvs} :
                  \A i \in DOMAIN csvs : csvs[i].line_width <= w

\* C7: for every non-empty slice (length 1 included), intersection_all
\* returns Some(grid) only if no fold step was incompatible and the grid has
\* at least one row; it returns None if a folded grid differs in delimiter
\* from the first.
IntersectionAllNeverEmpty ==
    (pc = "intersection_all" /\ csvs # <<>>) =>
        /\ result.kind \in {"Some", "None"}
        /\ result.kind = "Some" =>
             /\ \A i \in DOMAIN csvs : csvs[i].delimiter = csvs[1].delimiter
             /\ result.val[1].data # <<>>
        /\ (\E i \in DOMAIN csvs : csvs[i].delimiter # csvs[1].delimiter)
               => result.kind = "None"

\* The statement of C7 for slices of two or more grids, where every result
\* went through the fold's emptiness test.
IntersectionAllNeverEmptyFolded ==
    (pc = "intersection_all" /\ Len(csvs) >= 2) =>
        /\ result.kind \in {"Some", "None"}
        /\ result.kind = "Some" =>
             /\ \A i \in DOMAIN csvs : csvs[i].delimiter = csvs[1].delimiter
             /\ result.val[1].data # <<>>
        /\ (\E i \in DOMAIN csvs : csvs[i].delimiter # csvs[1].delimiter)
               => result.kind = "None"

\* the grids of the slice that hold the row r once padded to the slice width
HoldersOf(r) ==
    {i \in DOMAIN csvs : RowCount(PaddedRows(csvs[i], SliceWidth), r) > 0}

UnionAllConcatenates ==
    (pc = "union_all" /\ csvs # <<>>) =>
        /\ result.kind = "Value"
        /\ LET target == Max(arg.line_width, SliceWidth)
           IN  result.val[1].data
                   = Flatten([i \in DOMAIN csvs |->
                                Flatten(PaddedRows(csvs[i], target))])

\* two non-empty grids of different widths, one with a duplicated row, are
\* concatenated under a declared width larger than both
UnionAllConcatenatesWitness ==
    /\ pc = "union_all"
    /\ Len(csvs) = 2
    /\ csvs[1].data # <<>> /\ csvs[2].data # <<>>
    /\ csvs[1].line_width # csvs[2].line_width
    /\ \E j \in DOMAIN RowsOf(csvs[1]), k \in DOMAIN RowsOf(csvs[1]) :
         j # k /\ RowsOf(csvs[1])[j] = RowsOf(csvs[1])[k]
    /\ arg.line_width >= SliceWidth
    /\ result.kind = "Value"
    /\ Len(result.val[1].data) = 3 * SliceWidth

\* some row of some grid has more tokens than the width given to pad
RowTooLong ==
    \E i \in DOMAIN csvs :
        LET rows == RowsOf(csvs[i])
        IN  \E j \in DOMAIN rows : Len(rows[j]) > arg.line_width

\* C10: pad(grids, width) fails fatally whenever some row of some grid has
\* more tokens than width, wherever that grid stands; otherwise it returns
\* one grid per input, in order, with the same delimiter, line_width =
\* width and the same rows, each followed by "" up to width tokens.
PadOutcome ==
    (pc = "pad") =>
        /\ RowTooLong => (result.kind \in {"Panic", "Abort"} /\ result.val = <<>>)
        /\ ~RowTooLong =>
             /\ result.kind = "Value"
             /\ Len(result.val) = Len(csvs)
             /\ \A i \in DOMAIN csvs :
                  /\ result.val[i].delimiter = csvs[i].delimiter
                  /\ result.val[i].line_width = arg.line_width
                  /\ RowsOf(result.val[i]) = PaddedRows(csvs[i], arg.line_width)

\* the row that is too long is in the second grid, the first grid fits
PadOutcomeWitness ==
    /\ pc = "pad"
    /\ Len(csvs) = 2
    /\ csvs[1].data # <<>>
    /\ \A j \in DOMAIN RowsOf(csvs[1]) : Len(RowsOf(csvs[1])[j]) <= arg.line_width
    /\ \E j \in DOMAIN RowsOf(csvs[2]) : Len(RowsOf(csvs[2])[j]) > arg.line_width
    /\ result.kind \in {"Panic", "Abort"}

\* pad succeeds on two grids of different delimiters and lengthens a row
PadOutcomeValueWitness ==
    /\ pc = "pad"
    /\ Len(csvs) = 2
    /\ csvs[1].delimiter # csvs[2].delimiter
    /\ result.kind = "Value"
    /\ \E j \in DOMAIN RowsOf(csvs[2]) : Len(RowsOf(csvs[2])[j]) < arg.line_width

----------------------------------------------------------------------------
(* The documented scenarios: two grids parsed by from_raw_string from      *)
(* texts over the names test, test2, .., test6 of the repository's tests,  *)
(* then united.  Here text is the sequence of the texts parsed so far.     *)

\* "test" for 1, "test2" .. "test6" for 2 .. 6
DocName(n) == <<116, 101, 115, 116>> \o (IF n = 1 THEN <<>> ELSE <<48 + n>>)

\* the names lo .. hi joined by ','; the empty text when hi < lo
DocText(lo, hi) == Join([i \in 1..(hi - lo + 1) |-> DocName(lo + i - 1)], <<COMMA>>)

DocTexts == {DocText(lo, hi) : lo \in 1..6, hi \in 0..6}

InitDoc ==
    /\ csvs = <<>>
    /\ text = <<>>
    /\ file = <<>>
    /\ arg = NoArg
    /\ pc = "start"
    /\ result = Idle
    /\ iter = NoIter

\* one more grid is parsed from a text and kept
ParseGrid ==
    /\ pc = "start"
    /\ Len(csvs) < 2
    /\ \E data \in DocTexts, delimiter \in Delims, line_width \in 1..MaxDocWidth :
         /\ text' = Append(text, data)
         /\ csvs' = Append(csvs, from_raw_string(data, delimiter, line_width).val[1])
    /\ UNCHANGED <<iter, file, arg, pc, result>>

UnionParsed == Len(csvs) = 2 /\ Union

NextDoc == ParseGrid \/ UnionParsed

SpecDoc == InitDoc /\ [][NextDoc]_vars

\* A = from_raw_string("test,test2,test3", ',', 2) and
\* B = from_raw_string("test,test2,test3,test4,test5,test6", ',', 2) were united
DocScenario ==
    /\ pc = "union"
    /\ text = <<DocText(1, 3), DocText(1, 6)>>
    /\ \A i \in 1..2 : csvs[i].delimiter = COMMA /\ csvs[i].line_width = 2

\* C11 as claimed: the union of the scenario is the width-2 grid with the
\* rows [test,test2], [test3," "], [test,test2], [test3,test4],
\* [test5,test6] in this order.
UnionScenarioAppended ==
    DocScenario =>
        result = Outcome("Some",
                   <<CsvData(<<DocName(1), DocName(2), DocName(3), <<SP>>,
                               DocName(1), DocName(2), DocName(3), DocName(4),
                               DocName(5), DocName(6)>>, COMMA, 2)>>)

\* C11: the union of the scenario is the width-2 grid with the rows in the
\* order of their keys: [test,test2], [test,test2], [test3," "],
\* [test3,test4], [test5,test6].
UnionScenarioSorted ==
    DocScenario =>
        result = Outcome("Some",
                   <<CsvData(<<DocName(1), DocName(2), DocName(1), DocName(2),
                               DocName(3), <<SP>>, DocName(3), DocName(4),
                               DocName(5), DocName(6)>>, COMMA, 2)>>)

\* the scenario was run: A is the padded grid test,test2,test3," "
UnionScenarioWitness ==
    /\ DocScenario
    /\ csvs[1].data = <<DocName(1), DocName(2), DocName(3), <<SP>>>>
    /\ Len(csvs[2].data) = 6
    /\ result.kind = "Some"

----------------------------------------------------------------------------
(* Row iteration, call by call.  A grid is built by CsvData::new with any  *)
(* usize as line_width, 0 included, and iterated either borrowed           *)
(* (CsvDataIterator, which leaves the grid where it is and can be started  *)
(* again) or owned (CsvDataIntoIterator, which takes the grid).            *)
(* Every row yielded by a terminating iteration holds a token, so an       *)
(* iteration that ends yields at most data.len() rows: the model follows   *)
(* an iterator for one row more than that and no further.                  *)

\* CsvDataIterator::next: <<>> for None, <<row, index after the call>>
IterNext(it) ==
    IF it.index >= Len(it.csv_data.data) THEN <<>>
    ELSE LET right_bound ==
                 IF it.index + it.csv_data.line_width < Len(it.csv_data.data)
                 THEN it.index + it.csv_data.line_width
                 ELSE Len(it.csv_data.data)
         IN  <<SubSeq(it.csv_data.data, it.index + 1, right_bound),
               it.index + it.csv_data.line_width>>

\* CsvDataIntoIterator::next: the same code on the owned grid
IntoIterNext(it) ==
    IF it.index >= Len(it.csv_data.data) THEN <<>>
    ELSE LET right_bound ==
                 IF it.index + it.csv_data.line_width < Len(it.csv_data.data)
                 THEN it.index + it.csv_data.line_width
                 ELSE Len(it.csv_data.data)
         IN  <<SubSeq(it.csv_data.data, it.index + 1, right_bound),
               it.index + it.csv_data.line_width>>

IterGrids ==
    {CsvData(d, dl, w) : d \in SeqUpTo(AllTokens, MaxIterTokens), dl \in Delims,
                         w \in 0..MaxIterWidth}

InitIter ==
    /\ \E g \in IterGrids : csvs = <<g>>
    /\ text = <<>>
    /\ file = <<>>
    /\ arg = NoArg
    /\ pc = "start"
    /\ result = Idle
    /\ iter = NoIter

\* (&csv).into_iter(), the first time or again after the end of a pass
IntoIterRef ==
    /\ \/ pc = "start" /\ iter' = Iterator(csvs[1], 0, <<>>, <<>>, 1)
       \/ /\ pc = "end_ref" /\ iter.pass = 1
          /\ iter' = Iterator(csvs[1], 0, <<>>, iter.rows, 2)
    /\ pc' = "iter_ref"
    /\ UNCHANGED <<csvs, text, file, arg, result>>

\* csv.into_iter(): the grid moves into the iterator
IntoIterOwned ==
    /\ pc = "start"
    /\ iter' = Iterator(csvs[1], 0, <<>>, <<>>, 1)
    /\ csvs' = <<>>
    /\ pc' = "iter_owned"
    /\ UNCHANGED <<text, file, arg, result>>

\* one call of next on the borrowing iterator
NextRef ==
    /\ pc = "iter_ref"
    /\ Len(iter.rows) <= Len(iter.csv_data.data)
    /\ LET r == IterNext(iter)
       IN  IF r = <<>>
           THEN pc' = "end_ref" /\ iter' = iter
           ELSE /\ pc' = pc
                /\ iter' = [iter EXCEPT !.rows = Append(@, r[1]), !.index = r[2]]
    /\ UNCHANGED <<csvs, text, file, arg, result>>

\* one call of next on the owning iterator
NextOwned ==
    /\ pc = "iter_owned"
    /\ Len(iter.rows) <= Len(iter.csv_data.data)
    /\ LET r == IntoIterNext(iter)
       IN  IF r = <<>>
           THEN pc' = "end_owned" /\ iter' = iter
           ELSE /\ pc' = pc
                /\ iter' = [iter EXCEPT !.rows = Append(@, r[1]), !.index = r[2]]
    /\ UNCHANGED <<csvs, text, file, arg, result>>

NextIter == IntoIterRef \/ IntoIterOwned \/ NextRef \/ NextOwned

SpecIter == InitIter /\ [][NextIter]_vars

\* the caller goes on calling next until it returns None
SpecIterFair == SpecIter /\ WF_vars(NextIter)

Iterating == pc \in {"iter_ref", "iter_owned", "end_ref", "end_owned"}

IterationOf(g, rows) ==
    \* it ends: no more rows than tokens
    /\ Len(rows) <= Len(g.data)
    \* every row but the last has line_width tokens, the last 1..line_width
    /\ \A j \in DOMAIN rows :
         /\ 1 <= Len(rows[j]) /\ Len(rows[j]) <= g.line_width
         /\ j < Len(rows) => Len(rows[j]) = g.line_width
    \* the rows are the tokens yielded so far, and all of them at the end
    /\ Flatten(rows) = SubSeq(g.data, 1, Len(Flatten(rows)))
    /\ pc \in {"end_ref", "end_owned"} => Flatten(rows) = g.data
    \* a borrowed grid is left as it was, and a second pass repeats the first
    /\ pc \in {"iter_ref", "end_ref"} => csvs = <<g>>
    /\ (pc = "end_ref" /\ iter.pass = 2) => rows = iter.first

\* C12: for every grid that can be constructed, iterating it, borrowed or
\* owned, comes to the end of the sequence (after no more rows than there
\* are tokens); the rows yielded, concatenated, are the grid's tokens; every
\* row but the last has line_width tokens and the last has 1..line_width;
\* a borrowed grid is unchanged and a second iteration yields the same rows.
IterationFiniteLossless ==
    Iterating => IterationOf(iter.csv_data, iter.rows)

\* The statement of C12 for grids whose line_width is at least 1.
IterationFiniteLosslessPositive ==
    (Iterating /\ iter.csv_data.line_width >= 1)
        => IterationOf(iter.csv_data, iter.rows)

\* With line_width at least 1, an iteration that is under way reaches the
\* end of the sequence.
IterationEndsPositive ==
    (pc \in {"iter_ref", "iter_owned"} /\ iter.csv_data.line_width >= 1)
        ~> (pc \in {"end_ref", "end_owned"})

\* a second borrowed pass over a grid with a ragged last row has ended
IterationPositiveWitness ==
    /\ pc = "end_ref" /\ iter.pass = 2
    /\ iter.csv_data.line_width = 2
    /\ Len(iter.csv_data.data) = 3
    /\ Len(iter.rows) = 2

----------------------------------------------------------------------------
(* The grid returned by union_all, regrouped by its own line_width. *)

\* the padded rows of every grid of the slice, in order
AllPaddedRows(slice, w) ==
    Flatten([i \in DOMAIN slice |-> PaddedRows(slice[i], w)])

UnionAllRegroupsOf(g, target) ==
    /\ g.line_width = target
    /\ into_iter(g) = AllPaddedRows(csvs, target)
    /\ \A r \in Range(into_iter(g)) : Len(r) = g.line_width
    /\ Len(g.data) % g.line_width = 0

\* C13: for every non-empty slice and every declared line_width >= 1, one
\* smaller than a grid's width included, the line_width of the grid that
\* union_all returns is the width its rows were padded to: iterating it
\* yields the padded input rows, each of line_width tokens, and its token
\* count is a multiple of its line_width.
UnionAllRegroups ==
    (pc = "union_all" /\ csvs # <<>> /\ arg.line_width >= 1) =>
        /\ result.kind = "Value"
        /\ UnionAllRegroupsOf(result.val[1], Max(arg.line_width, SliceWidth))

\* The statement of C13 for a declared line_width that is no smaller than
\* any grid's width.
UnionAllRegroupsDeclaredMax ==
    (pc = "union_all" /\ csvs # <<>> /\ arg.line_width >= 1
        /\ arg.line_width >= SliceWidth) =>
        /\ result.kind = "Value"
        /\ UnionAllRegroupsOf(result.val[1], arg.line_width)

====
